---- MODULE Spec2Model ----
(***************************************************************************)
(* Dom Creator Dashboard (src/app.py): the scheduled_posts table, the JSON *)
(* API over it (GET/POST /api/posts, PUT/DELETE /api/posts/<id>) and the   *)
(* analytics summary.  One action per route; an action is the whole        *)
(* request: handler body, commit or rollback, and the session teardown.    *)
(***************************************************************************)
EXTENDS Integers, Sequences, FiniteSets, TLC

\* Largest primary key the table hands out (the code has no limit).
MaxId == 2
\* Largest reading of the clock, in microseconds after the first reading.
MaxClock == 1

VARIABLES
    DATABASE_URL,   \* the connection string chosen at start-up (line 29-33)
    table,          \* scheduled_posts: committed rows, a function id -> row
    seq,            \* PostgreSQL: last value of scheduled_posts_id_seq
    now,            \* the latest reading datetime.utcnow() has returned
    request,        \* the request being answered
    response,       \* the response to it
    deleted         \* history: the ids a DELETE has answered 200 for

vars == <<DATABASE_URL, table, seq, now, request, response, deleted>>

----------------------------------------------------------------------------
(* JSON values.  A request body is None (JSON null) or a function from the *)
(* keys it holds to values; a value is a str or None (null stands for      *)
(* every non-str value: it has neither .lower() nor an ISO parse).         *)

None == [type |-> "NoneType"]
Str(v) == [type |-> "str", val |-> v]
Absent == [type |-> "absent"]
IsStr(v) == v.type = "str"

Field(k, v) == IF v = Absent THEN <<>> ELSE (k :> v)
Body(p, c, s, l) ==
    Field("platform", p) @@ Field("caption", c)
        @@ Field("scheduled_datetime", s) @@ Field("link_or_asset_note", l)

----------------------------------------------------------------------------
(* str.lower(), on strings held as sequences of one-character strings.     *)

Upper == <<"A","B","C","D","E","F","G","H","I","J","K","L","M",
           "N","O","P","Q","R","S","T","U","V","W","X","Y","Z">>
Lower == <<"a","b","c","d","e","f","g","h","i","j","k","l","m",
           "n","o","p","q","r","s","t","u","v","w","x","y","z">>

lower_char(ch) ==
    IF \E i \in DOMAIN Upper : Upper[i] = ch
    THEN Lower[CHOOSE i \in DOMAIN Upper : Upper[i] = ch]
    ELSE ch

lower_unchanged(s) == s

lower(s) == [i \in DOMAIN s |-> lower_char(s[i])]

----------------------------------------------------------------------------
(* datetime: <<year, month, day, hour, minute, second, microsecond>>.      *)

DtLess(a, b) ==
    \E i \in 1..7 : a[i] < b[i] /\ \A j \in 1..(i - 1) : a[j] = b[j]
DtLeq(a, b) == a = b \/ DtLess(a, b)

\* datetime.utcnow() when the clock stands t microseconds after the epoch.
utcnow(t) == <<2024, 5, 20, 12, 0, 0, t>>

ValueError == <<>>

\* datetime.fromisoformat on the strings the requests use.
fromisoformat(s) ==
    CASE s = "2024-06-01T10:00:00" -> <<2024, 6, 1, 10, 0, 0, 0>>
      [] s = "2024-06-02T09:30"    -> <<2024, 6, 2, 9, 30, 0, 0>>
      [] s = "2024-06-03"          -> <<2024, 6, 3, 0, 0, 0, 0>>
      [] OTHER                     -> ValueError

PadTo(n, width) ==
    LET d == ToString(n)
        RECURSIVE Zeros(_)
        Zeros(k) == IF k <= 0 THEN "" ELSE "0" \o Zeros(k - 1)
    IN  Zeros(width - Len(d)) \o d

\* datetime.isoformat()
isoformat(dt) ==
    PadTo(dt[1], 4) \o "-" \o PadTo(dt[2], 2) \o "-" \o PadTo(dt[3], 2)
      \o "T" \o PadTo(dt[4], 2) \o ":" \o PadTo(dt[5], 2) \o ":" \o PadTo(dt[6], 2)
      \o (IF dt[7] = 0 THEN "" ELSE "." \o PadTo(dt[7], 6))

----------------------------------------------------------------------------
(* The model class and its table.                                          *)

\* ScheduledPost(platform=..., caption=..., scheduled_datetime=..., ...):
\* id and the column defaults are filled in by the INSERT.
ScheduledPost(platform, caption, scheduled_dt, note) ==
    [id |-> 0, platform |-> platform, caption |-> caption,
     scheduled_datetime |-> scheduled_dt, link_or_asset_note |-> note,
     created_at |-> ValueError, updated_at |-> ValueError, is_posted |-> FALSE]

to_dict(post) ==
    [id |-> post.id,
     platform |-> post.platform,
     caption |-> post.caption,
     scheduled_datetime |-> isoformat(post.scheduled_datetime),
     link_or_asset_note |-> post.link_or_asset_note,
     created_at |-> isoformat(post.created_at),
     updated_at |-> isoformat(post.updated_at),
     is_posted |-> post.is_posted]

EnvUrls == {"", "postgres://render/dashboard", "postgresql://render/dashboard"}

\* os.getenv('DATABASE_URL', 'sqlite:///app.db'), postgres:// rewritten.
DatabaseUrl(env) ==
    IF env = "" THEN "sqlite:///app.db"
    ELSE IF env = "postgres://render/dashboard" THEN "postgresql://render/dashboard"
    ELSE env

IsSqlite(url) == url = "sqlite:///app.db"

MaxOf(S) == CHOOSE m \in S : \A x \in S : x <= m
MinOf(S) == CHOOSE m \in S : \A x \in S : m <= x

\* db.Column(db.Integer, primary_key=True): SQLite gives the largest rowid
\* plus one (no AUTOINCREMENT), PostgreSQL the next value of the sequence.
next_id(db, url) ==
    IF IsSqlite(url)
    THEN (IF DOMAIN db.table = {} THEN 1 ELSE MaxOf(DOMAIN db.table) + 1)
    ELSE db.seq + 1

\* nullable=False on platform, caption, scheduled_datetime; String(20) is
\* enforced by PostgreSQL and ignored by SQLite.
constraint_error(row, url) ==
    IF ~IsStr(row.caption) THEN "IntegrityError"
    ELSE IF ~IsSqlite(url) /\ Len(row.platform) > 20 THEN "DataError"
    ELSE ""

----------------------------------------------------------------------------
(* db.session: the unit of work a handler has pending, and the database    *)
(* state db = [table, seq, now] it is committed to.                        *)

NoSession == [op |-> "none"]
session_add(post) == [op |-> "insert", row |-> post]
session_dirty(post) == [op |-> "update", row |-> post]
session_delete(post) == [op |-> "delete", row |-> post]

Raised(e, db) == [raised |-> e, db |-> db]
NoError == ""

\* The INSERT of a pending post.  created_at and updated_at each call their
\* own default (two readings of the clock, ticks[1] and ticks[2] apart from
\* the one before); is_posted defaults to False.
insert_row(db, post, url, ticks) ==
    LET c1 == db.now + ticks[1]
        c2 == c1 + ticks[2]
        new_id == next_id(db, url)
        row == [post EXCEPT !.id = new_id,
                            !.created_at = utcnow(c1),
                            !.updated_at = utcnow(c2),
                            !.is_posted = FALSE]
        ran == [db EXCEPT !.now = c2,
                          !.seq = IF IsSqlite(url) THEN @ ELSE new_id]
        err == constraint_error(row, url)
    IN  IF err # NoError THEN Raised(err, ran)
        ELSE Raised(NoError, [ran EXCEPT !.table = (new_id :> row) @@ @])

update_row_no_onupdate(db, post, url, ticks) ==
    IF post = db.table[post.id] THEN Raised(NoError, db)
    ELSE LET ran == [db EXCEPT !.now = db.now + ticks[1]]
             err == constraint_error(post, url)
         IN  IF err # NoError THEN Raised(err, ran)
             ELSE Raised(NoError, [ran EXCEPT !.table[post.id] = post])

\* The UPDATE of a dirty post: emitted only when a column's value differs
\* from the loaded one, and then onupdate refreshes updated_at.
update_row(db, post, url, ticks) ==
    IF post = db.table[post.id] THEN Raised(NoError, db)
    ELSE LET c1 == db.now + ticks[1]
             row == [post EXCEPT !.updated_at = utcnow(c1)]
             ran == [db EXCEPT !.now = c1]
             err == constraint_error(row, url)
         IN  IF err # NoError THEN Raised(err, ran)
             ELSE Raised(NoError, [ran EXCEPT !.table[post.id] = row])

delete_row_keeps(db, post) == Raised(NoError, db)

delete_row(db, post) ==
    Raised(NoError,
           [db EXCEPT !.table = [i \in DOMAIN @ \ {post.id} |-> @[i]]])

flush(db, session, url, ticks) ==
    CASE session.op = "insert" -> insert_row(db, session.row, url, ticks)
      [] session.op = "update" -> update_row(db, session.row, url, ticks)
      [] session.op = "delete" -> delete_row(db, session.row)
      [] OTHER -> Raised(NoError, db)

\* db.session.commit(): flush, then COMMIT.  A statement that fails, or a
\* storage failure (fault) at COMMIT, raises and leaves the rows as they
\* were; the clock readings and the sequence value are not given back.
commit(db, session, url, ticks, fault) ==
    LET f == flush(db, session, url, ticks)
    IN  IF f.raised # NoError THEN Raised(f.raised, [f.db EXCEPT !.table = db.table])
        ELSE IF fault THEN Raised("OperationalError", [f.db EXCEPT !.table = db.table])
        ELSE f

\* db.session.rollback()
rollback(session) == NoSession

shutdown_session_commits(db, session, url, ticks) ==
    commit(db, session, url, ticks, FALSE).db

\* Flask-SQLAlchemy's teardown, registered by SQLAlchemy(app): session.remove()
\* closes the session, and what it still has pending is discarded.
shutdown_session(db, session, url, ticks) == db

----------------------------------------------------------------------------
(* Responses: jsonify(json), status.                                       *)

NoResponse == [status |-> 0, kind |-> "none", json |-> None]
Returned(status, kind, json, db, session) ==
    [status |-> status, kind |-> kind, json |-> json, db |-> db, session |-> session]

\* except Exception as e: db.session.rollback(); return {'error': str(e)}, 500
Caught(e, db, session) ==
    Returned(500, "error", [error |-> e], db, rollback(session))

----------------------------------------------------------------------------
(* Queries.                                                                *)

\* The rows of a table in rowid order.
RECURSIVE all_rows(_)
all_rows(tbl) ==
    IF DOMAIN tbl = {} THEN <<>>
    ELSE LET i == MinOf(DOMAIN tbl)
         IN  <<tbl[i]>> \o all_rows([j \in DOMAIN tbl \ {i} |-> tbl[j]])

\* .filter_by(is_posted=False)
unposted(rows) == SelectSeq(rows, LAMBDA r : r.is_posted = FALSE)

\* .filter_by(platform=platform_key, is_posted=False)
on_platform(rows, platform_key) ==
    SelectSeq(rows, LAMBDA r : r.platform = platform_key /\ r.is_posted = FALSE)

\* One row put into an ordered result: after every row not later than it
\* (rows with equal times stay in rowid order, one of the orders the
\* database may return them in).
RECURSIVE insert_ordered(_, _)
insert_ordered(sorted, r) ==
    IF sorted = <<>> THEN <<r>>
    ELSE IF DtLess(r.scheduled_datetime, Head(sorted).scheduled_datetime)
         THEN <<r>> \o sorted
         ELSE <<Head(sorted)>> \o insert_ordered(Tail(sorted), r)

order_by_rowid(rows) == rows

\* .order_by(ScheduledPost.scheduled_datetime)
RECURSIVE order_by(_)
order_by(rows) ==
    IF rows = <<>> THEN <<>>
    ELSE insert_ordered(order_by(SubSeq(rows, 1, Len(rows) - 1)), rows[Len(rows)])

\* .count()
count(rows) == Len(rows)

tiktok == <<"t","i","k","t","o","k">>
youtube == <<"y","o","u","t","u","b","e">>
instagram == <<"i","n","s","t","a","g","r","a","m">>
facebook == <<"f","a","c","e","b","o","o","k">>
linkedin == <<"l","i","n","k","e","d","i","n">>
threads == <<"t","h","r","e","a","d","s">>

PLATFORMS ==
    (tiktok :> [name |-> "TikTok", color |-> "#000000"]) @@
    (youtube :> [name |-> "YouTube", color |-> "#FF0000"]) @@
    (instagram :> [name |-> "Instagram", color |-> "#E1306C"]) @@
    (facebook :> [name |-> "Facebook", color |-> "#1877F2"]) @@
    (linkedin :> [name |-> "LinkedIn", color |-> "#0A66C2"]) @@
    (threads :> [name |-> "Threads", color |-> "#333333"])

followers ==
    (tiktok :> 15000) @@ (youtube :> 8500) @@ (instagram :> 12000) @@
    (facebook :> 5000) @@ (linkedin :> 3200) @@ (threads :> 2100)

views_7d ==
    (tiktok :> 125000) @@ (youtube :> 45000) @@ (instagram :> 38000) @@
    (facebook :> 12000) @@ (linkedin :> 5600) @@ (threads :> 8900)

top_posts ==
    [i \in 1..3 |-> [title |-> "Top post #" \o ToString(i),
                     engagement |-> <<450, 380, 290, 210, 150>>[i],
                     date |-> "2024-01-20"]]

posts_scheduled_any_platform(tbl, platform_key) == count(unposted(all_rows(tbl)))

posts_scheduled(tbl, platform_key) == count(on_platform(all_rows(tbl), platform_key))

get_analytics_data(tbl) ==
    [platform_key \in DOMAIN PLATFORMS |->
        [name |-> PLATFORMS[platform_key].name,
         color |-> PLATFORMS[platform_key].color,
         followers |-> followers[platform_key],
         views_7d |-> views_7d[platform_key],
         posts_scheduled |-> posts_scheduled(tbl, platform_key),
         top_posts |-> top_posts]]

----------------------------------------------------------------------------
(* The view functions: what a request returns, the database state it has   *)
(* committed and the unit of work it leaves pending.                       *)

Required == {"platform", "caption", "scheduled_datetime"}

get_posts_view(db) ==
    LET posts == order_by(unposted(all_rows(db.table)))
    IN  Returned(200, "posts", [i \in DOMAIN posts |-> to_dict(posts[i])], db, NoSession)

analytics_view(db) ==
    Returned(200, "analytics", get_analytics_data(db.table), db, NoSession)

create_post_view(data, db, url, ticks, fault) ==
    IF data = None THEN Caught("TypeError", db, NoSession)
    ELSE IF ~(\A k \in Required : k \in DOMAIN data)
    THEN Returned(400, "error", [error |-> "Missing required fields"], db, NoSession)
    ELSE IF ~IsStr(data.scheduled_datetime) THEN Caught("TypeError", db, NoSession)
    ELSE IF fromisoformat(data.scheduled_datetime.val) = ValueError
    THEN Returned(400, "error",
                  [error |-> "Invalid datetime format. Use ISO format: YYYY-MM-DDTHH:mm"],
                  db, NoSession)
    ELSE IF ~IsStr(data.platform) THEN Caught("AttributeError", db, NoSession)
    ELSE LET post == ScheduledPost(
                         lower(data.platform.val),
                         data.caption,
                         fromisoformat(data.scheduled_datetime.val),
                         IF "link_or_asset_note" \in DOMAIN data
                         THEN data.link_or_asset_note ELSE Str(""))
             session == session_add(post)
             c == commit(db, session, url, ticks, fault)
         IN  IF c.raised # NoError THEN Caught(c.raised, c.db, session)
             ELSE Returned(201, "post",
                           to_dict(c.db.table[next_id(db, url)]),
                           c.db, NoSession)

update_post_view(post_id, data, db, url, ticks, fault) ==
    IF post_id \notin DOMAIN db.table THEN Caught("404 Not Found", db, NoSession)
    ELSE IF data = None THEN Caught("TypeError", db, NoSession)
    ELSE
    LET post == db.table[post_id]
        has(k) == k \in DOMAIN data
        p1 == IF has("platform")
              THEN [post EXCEPT !.platform = lower(data.platform.val)] ELSE post
        p2 == IF has("caption") THEN [p1 EXCEPT !.caption = data.caption] ELSE p1
        p3 == IF has("scheduled_datetime")
              THEN [p2 EXCEPT !.scheduled_datetime =
                                  fromisoformat(data.scheduled_datetime.val)]
              ELSE p2
        p4 == IF has("link_or_asset_note")
              THEN [p3 EXCEPT !.link_or_asset_note = data.link_or_asset_note] ELSE p3
    IN  IF has("platform") /\ ~IsStr(data.platform)
        THEN Caught("AttributeError", db, session_dirty(post))
        ELSE IF has("scheduled_datetime") /\ ~IsStr(data.scheduled_datetime)
        THEN Caught("TypeError", db, session_dirty(p2))
        ELSE IF has("scheduled_datetime")
                /\ fromisoformat(data.scheduled_datetime.val) = ValueError
        THEN Returned(400, "error", [error |-> "Invalid datetime format"],
                      db, session_dirty(p2))
        ELSE LET c == commit(db, session_dirty(p4), url, ticks, fault)
             IN  IF c.raised # NoError THEN Caught(c.raised, c.db, session_dirty(p4))
                 ELSE Returned(200, "post", to_dict(c.db.table[post_id]), c.db, NoSession)

delete_post_view(post_id, db, url, ticks, fault) ==
    IF post_id \notin DOMAIN db.table THEN Caught("404 Not Found", db, NoSession)
    ELSE LET session == session_delete(db.table[post_id])
             c == commit(db, session, url, ticks, fault)
         IN  IF c.raised # NoError THEN Caught(c.raised, c.db, session)
             ELSE Returned(200, "message", [message |-> "Post deleted"], c.db, NoSession)

----------------------------------------------------------------------------
(* Requests and the routes.                                                *)

Request(method, path, post_id, data, ticks, fault) ==
    [method |-> method, path |-> path, post_id |-> post_id, data |-> data,
     ticks |-> ticks, fault |-> fault]

NoRequest == Request("", "", 0, None, <<0, 0>>, FALSE)

Db == [table |-> table, seq |-> seq, now |-> now]

\* The response goes out and the request's session is torn down.  The
\* guards keep the primary keys and the clock within the bounds.
Respond(req, res) ==
    LET final == shutdown_session(res.db, res.session, DATABASE_URL, req.ticks)
    IN  /\ final.now <= MaxClock
        /\ final.seq <= MaxId
        /\ DOMAIN final.table \subseteq 1..MaxId
        /\ table' = final.table
        /\ seq' = final.seq
        /\ now' = final.now
        /\ request' = req
        /\ response' = [status |-> res.status, kind |-> res.kind, json |-> res.json]
        /\ UNCHANGED DATABASE_URL

\* GET /api/posts
get_posts(req) ==
    /\ req.method = "GET" /\ req.path = "/api/posts"
    /\ Respond(req, get_posts_view(Db))
    /\ UNCHANGED deleted

\* GET /analytics
analytics(req) ==
    /\ req.method = "GET" /\ req.path = "/analytics"
    /\ Respond(req, analytics_view(Db))
    /\ UNCHANGED deleted

\* POST /api/posts
create_post(req) ==
    /\ req.method = "POST" /\ req.path = "/api/posts"
    /\ Respond(req, create_post_view(req.data, Db, DATABASE_URL, req.ticks, req.fault))
    /\ UNCHANGED deleted

\* PUT /api/posts/<int:post_id>
update_post(req) ==
    /\ req.method = "PUT" /\ req.path = "/api/posts/<int:post_id>"
    /\ Respond(req, update_post_view(req.post_id, req.data, Db, DATABASE_URL,
                                     req.ticks, req.fault))
    /\ UNCHANGED deleted

\* DELETE /api/posts/<int:post_id>
delete_post(req) ==
    /\ req.method = "DELETE" /\ req.path = "/api/posts/<int:post_id>"
    /\ LET res == delete_post_view(req.post_id, Db, DATABASE_URL, req.ticks, req.fault)
       IN  /\ Respond(req, res)
           /\ deleted' = IF res.status = 200 THEN deleted \cup {req.post_id} ELSE deleted

\* db.create_all() on the chosen database: an empty table.
InitWith(envs) ==
    /\ DATABASE_URL \in {DatabaseUrl(env) : env \in envs}
    /\ table = <<>>
    /\ seq = 0
    /\ now = 0
    /\ request = NoRequest
    /\ response = NoResponse
    /\ deleted = {}

----------------------------------------------------------------------------
(* The requests a client sends.  Each specification below serves the same  *)
(* routes over its own set of requests.                                    *)

TikTok == <<"T","i","k","T","o","k">>
YouTube == <<"Y","o","u","T","u","b","e">>
Mastodon == <<"M","a","s","t","o","d","o","n">>
TooLong == [i \in 1..21 |-> "X"]

Bodies(P, C, S, L) == {Body(p, c, s, l) : p \in P, c \in C, s \in S, l \in L}

Ids == 1..MaxId

Gets == {Request("GET", "/api/posts", 0, None, <<0, 0>>, FALSE),
         Request("GET", "/analytics", 0, None, <<0, 0>>, FALSE)}
Posts(bodies, T, F) ==
    {Request("POST", "/api/posts", 0, d, <<t1, t2>>, f) :
        d \in bodies, t1 \in T, t2 \in T, f \in F}
Puts(I, bodies, T, F) ==
    {Request("PUT", "/api/posts/<int:post_id>", i, d, <<t, 0>>, f) :
        i \in I, d \in bodies, t \in T, f \in F}
Deletes(I, F) ==
    {Request("DELETE", "/api/posts/<int:post_id>", i, None, <<0, 0>>, f) :
        i \in I, f \in F}

Serve(requests) ==
    \E req \in requests :
        \/ get_posts(req)
        \/ analytics(req)
        \/ create_post(req)
        \/ update_post(req)
        \/ delete_post(req)

IsoTimes == {Str("2024-06-01T10:00:00"), Str("2024-06-02T09:30"), Str("2024-06-03")}

\* Scheduling: posts that differ in their scheduled time, on either database.
ScheduleRequests ==
    Gets
    \cup Posts(Bodies({Str(TikTok)}, {Str("Launch teaser")}, IsoTimes, {Absent}),
               {0}, {FALSE})
    \cup Puts(Ids, Bodies({Absent}, {Absent}, IsoTimes, {Absent}), {0}, {FALSE})
    \cup Puts(Ids, Bodies({Absent}, {Absent}, {Absent}, {None, Str("teaser.mp4")}),
              {0}, {FALSE})
    \cup Deletes(Ids, {FALSE})

Init == InitWith(EnvUrls)
Next == Serve(ScheduleRequests)
Spec == Init /\ [][Next]_vars

\* Captions and the clock: every reading of the clock may or may not have
\* advanced since the one before.
ClockRequests ==
    Gets
    \cup Posts(Bodies({Str(TikTok)}, {Str("Launch teaser"), Str(""), None},
                      {Str("2024-06-01T10:00:00")}, {Absent}),
               {0, 1}, {FALSE})
    \cup Puts(Ids, Bodies({Absent}, {Absent, Str(""), None}, {Absent}, {Absent}),
              {0, 1}, {FALSE})
    \cup Deletes({1}, {FALSE})

NextClock == Serve(ClockRequests)
SpecClock == InitWith(EnvUrls) /\ [][NextClock]_vars

\* Malformed requests, and storage failures at COMMIT.
ErrorRequests ==
    Gets
    \cup Posts({None}
               \cup Bodies({Str(TikTok)}, {Str("Launch teaser")},
                           {Absent, None, Str("not-a-date"), Str("2024-06-01T10:00:00")},
                           {Absent})
               \cup Bodies({Absent, None}, {Str("Launch teaser")},
                           {Str("not-a-date"), Str("2024-06-01T10:00:00")}, {Absent})
               \cup Bodies({Str(TikTok)}, {Absent},
                           {Str("not-a-date"), Str("2024-06-01T10:00:00")}, {Absent}),
               {0}, {FALSE})
    \cup Posts(Bodies({Str(TikTok)}, {Str("Launch teaser")},
                      {Str("2024-06-01T10:00:00")}, {Absent}),
               {0}, {TRUE})
    \cup Puts(Ids,
              {None}
              \cup Bodies({Str(YouTube)}, {Str("Edited")},
                          {Absent, None, Str("not-a-date"), Str("2024-06-02T09:30")},
                          {Absent})
              \cup Bodies({None}, {Str("Edited")}, {Absent}, {Absent})
              \cup Bodies({Absent}, {Absent}, {Str("not-a-date")}, {Absent}),
              {0}, {FALSE})
    \cup Puts(Ids, Bodies({Str(YouTube)}, {Str("Edited")}, {Absent}, {Absent}),
              {0}, {TRUE})
    \cup Deletes({1}, BOOLEAN)

NextErrors == Serve(ErrorRequests)
SpecErrors == InitWith(EnvUrls) /\ [][NextErrors]_vars

\* Platform strings: mixed case, outside the enumerated set, longer than
\* the column.
PlatformRequests ==
    Gets
    \cup Posts(Bodies({Str(TikTok), Str(tiktok), Str(Mastodon), Str(TooLong)},
                      {Str("Launch teaser")}, {Str("2024-06-01T10:00:00")}, {Absent}),
               {0}, {FALSE})
    \cup Puts(Ids, Bodies({Str(YouTube), Str(Mastodon), Str(TooLong)}, {Absent},
                          {Absent, Str("not-a-date")}, {Absent}),
              {0}, {FALSE})
    \cup Deletes({1}, {FALSE})

NextPlatforms == Serve(PlatformRequests)
SpecPlatforms == InitWith(EnvUrls) /\ [][NextPlatforms]_vars

----------------------------------------------------------------------------
(* The claims.  In an action formula the unprimed state is the store       *)
(* before the request named by request', the primed one the store after.   *)

IsRequest(req, method) == req.method = method /\ req.path # "/analytics"
Errors == {400, 404, 500}
Unposted(tbl) == {i \in DOMAIN tbl : tbl[i].is_posted = FALSE}
ListedIds(json) == {json[i].id : i \in DOMAIN json}
OthersUnchanged(k) ==
    \A j \in DOMAIN table' \ {k} : j \in DOMAIN table /\ table'[j] = table[j]

\* C1: a PUT or a DELETE of an id that is not the id of a stored record is
\* answered 404 and leaves the store unchanged (a second DELETE of a deleted
\* id included).
C1_UnknownIdIs404 ==
    [][ ( /\ IsRequest(request', "PUT") \/ IsRequest(request', "DELETE")
          /\ request'.post_id \notin DOMAIN table )
        => (response'.status = 404 /\ table' = table) ]_vars

\* C2: GET /api/posts returns exactly the stored records whose is_posted is
\* false, each once and as to_dict renders it, in ascending order of
\* scheduled_datetime.
C2_ListingSorted ==
    response.kind = "posts" =>
        LET L == response.json IN
        /\ ListedIds(L) = Unposted(table)
        /\ Len(L) = Cardinality(Unposted(table))
        /\ \A i \in DOMAIN L : L[i] = to_dict(table[L[i].id])
        /\ \A i \in DOMAIN L : \A j \in DOMAIN L :
              i < j => DtLeq(table[L[i].id].scheduled_datetime,
                             table[L[j].id].scheduled_datetime)

\* C2 witness: a listing of two posts in which the post inserted later (the
\* larger id) is scheduled strictly earlier and comes first.
C2_Witness ==
    /\ response.kind = "posts"
    /\ Len(response.json) >= 2
    /\ response.json[1].id > response.json[2].id
    /\ DtLess(table[response.json[1].id].scheduled_datetime,
              table[response.json[2].id].scheduled_datetime)

\* C6 as stated: once a DELETE of an id has succeeded, that id is absent from
\* the store and from every later GET /api/posts listing, for the rest of
\* the run.
C6_DeletedNeverListed ==
    \A k \in deleted :
        /\ k \notin DOMAIN table
        /\ response.kind = "posts" => k \notin ListedIds(response.json)

\* C6 amended: a successful DELETE removes exactly the record with that id
\* and changes no other; an id enters the store only by a POST answered 201
\* that is assigned it (on SQLite the id of a deleted last row is assigned
\* again, on PostgreSQL a deleted id never returns); a record leaves only by
\* a successful DELETE of its id; and every GET /api/posts lists exactly the
\* ids in the store.
C6_DeleteRemovesUntilReuse ==
    [][ /\ (IsRequest(request', "DELETE") /\ response'.status = 200) =>
              /\ request'.post_id \in DOMAIN table
              /\ DOMAIN table' = DOMAIN table \ {request'.post_id}
              /\ OthersUnchanged(request'.post_id)
        /\ \A k \in DOMAIN table' \ DOMAIN table :
              /\ IsRequest(request', "POST") /\ response'.status = 201
              /\ response'.json.id = k
        /\ \A k \in DOMAIN table \ DOMAIN table' :
              /\ IsRequest(request', "DELETE") /\ response'.status = 200
              /\ request'.post_id = k
        /\ response'.kind = "posts" => ListedIds(response'.json) = DOMAIN table'
        /\ ~IsSqlite(DATABASE_URL) => \A k \in deleted' : k \notin DOMAIN table'
      ]_vars

\* C6 witness: a listing taken after a successful DELETE, which holds the
\* post that is left and not the deleted id.
C6_Witness ==
    /\ response.kind = "posts"
    /\ Len(response.json) >= 1
    /\ \E k \in deleted : k \notin DOMAIN table /\ k \notin ListedIds(response.json)

\* C5 as stated: a successful PUT that supplies only caption sets the
\* caption to the supplied value, sets updated_at strictly later than it was,
\* and changes nothing else in that record or in any other.
C5_CaptionOnlyStrictlyLater ==
    [][ ( /\ IsRequest(request', "PUT") /\ response'.status = 200
          /\ DOMAIN request'.data = {"caption"} )
        => LET k == request'.post_id IN
           /\ table'[k].caption = request'.data.caption
           /\ DtLess(table[k].updated_at, table'[k].updated_at)
           /\ table'[k] = [table[k] EXCEPT !.caption = table'[k].caption,
                                           !.updated_at = table'[k].updated_at]
           /\ DOMAIN table' = DOMAIN table
           /\ OthersUnchanged(k) ]_vars

\* C5 amended: a successful PUT sets each column present in the body to the
\* supplied value (platform lowercased, scheduled_datetime parsed) and leaves
\* id, created_at, is_posted, the columns absent from the body and every
\* other record unchanged.  If a supplied value differs from the stored one,
\* updated_at becomes the reading of the clock taken by the UPDATE, which is
\* not earlier than the old value and is strictly later only if the clock
\* has advanced; if no supplied value differs, updated_at is unchanged.
C5_UpdateChangesSuppliedFields ==
    [][ (IsRequest(request', "PUT") /\ response'.status = 200)
        => LET k == request'.post_id
               data == request'.data
               old == table[k]
               new == table'[k]
           IN
           /\ DOMAIN table' = DOMAIN table
           /\ OthersUnchanged(k)
           /\ new.id = old.id /\ new.created_at = old.created_at
           /\ new.is_posted = old.is_posted
           /\ new.platform = IF "platform" \in DOMAIN data
                             THEN lower(data.platform.val) ELSE old.platform
           /\ new.caption = IF "caption" \in DOMAIN data
                            THEN data.caption ELSE old.caption
           /\ new.scheduled_datetime =
                  IF "scheduled_datetime" \in DOMAIN data
                  THEN fromisoformat(data.scheduled_datetime.val)
                  ELSE old.scheduled_datetime
           /\ new.link_or_asset_note =
                  IF "link_or_asset_note" \in DOMAIN data
                  THEN data.link_or_asset_note ELSE old.link_or_asset_note
           /\ IF [new EXCEPT !.updated_at = old.updated_at] # old
              THEN /\ new.updated_at = utcnow(now')
                   /\ DtLeq(old.updated_at, new.updated_at)
              ELSE new.updated_at = old.updated_at ]_vars

\* C5 witness: a successful caption-only PUT after which the record holds
\* the supplied caption and an updated_at, read as the clock advanced, that
\* is later than its created_at.
C5_Witness ==
    /\ IsRequest(request, "PUT") /\ response.status = 200
    /\ DOMAIN request.data = {"caption"}
    /\ request.ticks[1] = 1
    /\ table[request.post_id].caption = request.data.caption
    /\ table[request.post_id].updated_at = utcnow(now)
    /\ DtLess(table[request.post_id].created_at, table[request.post_id].updated_at)

\* C7: a POST answered 201 adds exactly one record and returns it; its id
\* differs from the id of every other stored record, its created_at equals
\* its updated_at, and its is_posted is false.
C7_CreatedRecord ==
    [][ (IsRequest(request', "POST") /\ response'.status = 201)
        => \E k \in DOMAIN table' \ DOMAIN table :
              /\ DOMAIN table' = DOMAIN table \cup {k}
              /\ OthersUnchanged(k)
              /\ response'.json = to_dict(table'[k])
              /\ \A j \in DOMAIN table' \ {k} : table'[j].id # response'.json.id
              /\ table'[k].created_at = table'[k].updated_at
              /\ table'[k].is_posted = FALSE ]_vars

\* C10: every stored record has platform, caption and scheduled_datetime
\* present, a non-empty caption, and updated_at >= created_at.
C10_RecordsWellFormed ==
    \A k \in DOMAIN table :
        /\ Len(table[k].platform) >= 0
        /\ table[k].scheduled_datetime # ValueError
        /\ IsStr(table[k].caption)
        /\ table[k].caption.val # ""
        /\ DtLeq(table[k].created_at, table[k].updated_at)

\* C3: a POST whose body lacks platform, caption or scheduled_datetime, or
\* whose scheduled_datetime is not a parsable ISO-8601 string, is answered
\* 400 and leaves the store unchanged.
C3_BadCreateIs400 ==
    [][ ( /\ IsRequest(request', "POST")
          /\ request'.data # None
          /\ \/ ~(Required \subseteq DOMAIN request'.data)
             \/ ~IsStr(request'.data.scheduled_datetime)
             \/ fromisoformat(request'.data.scheduled_datetime.val) = ValueError )
        => (response'.status = 400 /\ table' = table) ]_vars

RECURSIVE Total(_, _)
Total(f, S) ==
    IF S = {} THEN 0
    ELSE LET x == CHOOSE y \in S : TRUE IN f[x].posts_scheduled + Total(f, S \ {x})

\* C8: for each of the six platforms the summary's posts_scheduled is the
\* number of stored records with that platform and is_posted false; a record
\* on any other platform is counted nowhere, so the six counts sum to at most
\* the length of the GET /api/posts listing.
C8_PostsScheduled ==
    response.kind = "analytics" =>
        /\ DOMAIN response.json =
               {tiktok, youtube, instagram, facebook, linkedin, threads}
        /\ \A p \in DOMAIN response.json :
               response.json[p].posts_scheduled =
                   Cardinality({i \in Unposted(table) : table[i].platform = p})
        /\ Total(response.json, DOMAIN response.json) <= Len(get_posts_view(Db).json)

\* C8 witness: a summary taken while the store holds a tiktok post and a post
\* on a platform outside the six.
C8_Witness ==
    /\ response.kind = "analytics"
    /\ response.json[tiktok].posts_scheduled = 1
    /\ Cardinality(DOMAIN table) = 2
    /\ \E i \in DOMAIN table : table[i].platform \notin DOMAIN PLATFORMS

HasUpper(s) == \E i \in DOMAIN s : \E j \in DOMAIN Upper : s[i] = Upper[j]

\* A request that is well formed apart from the platform it names.
WellFormed(req, tbl) ==
    /\ req.data # None
    /\ ~req.fault
    /\ "platform" \in DOMAIN req.data /\ IsStr(req.data.platform)
    /\ "caption" \in DOMAIN req.data => IsStr(req.data.caption)
    /\ "scheduled_datetime" \in DOMAIN req.data =>
          /\ IsStr(req.data.scheduled_datetime)
          /\ fromisoformat(req.data.scheduled_datetime.val) # ValueError
    /\ \/ IsRequest(req, "POST") /\ Required \subseteq DOMAIN req.data
       \/ IsRequest(req, "PUT") /\ req.post_id \in DOMAIN tbl

Target(req, resp) == IF IsRequest(req, "POST") THEN resp.json.id ELSE req.post_id

\* C9 as stated: any platform string supplied by a create or an update is
\* accepted, and the record then holds its lowercase form; no stored
\* platform contains an uppercase letter.
C9_AnyPlatformStoredLowercase ==
    [][ /\ \A k \in DOMAIN table' : ~HasUpper(table'[k].platform)
        /\ WellFormed(request', table) =>
              /\ response'.status \in {200, 201}
              /\ table'[Target(request', response')].platform =
                     lower(request'.data.platform.val) ]_vars

\* C9 amended: the platform of a stored record is the lowercase form of the
\* platform string of the last successful request that supplied one for it
\* (a platform supplied in a request answered with an error is not stored),
\* and contains no uppercase letter.  Any string is accepted, inside the
\* enumerated set or not, except that PostgreSQL rejects a platform longer
\* than 20 characters: the request is answered 500 and the store unchanged.
C9_PlatformStoredLowercase ==
    [][ /\ \A k \in DOMAIN table' : ~HasUpper(table'[k].platform)
        /\ WellFormed(request', table) =>
              IF IsSqlite(DATABASE_URL) \/ Len(request'.data.platform.val) <= 20
              THEN /\ response'.status \in {200, 201}
                   /\ table'[Target(request', response')].platform =
                          lower(request'.data.platform.val)
              ELSE response'.status = 500 /\ table' = table
        /\ \A k \in DOMAIN table \cap DOMAIN table' :
              table'[k].platform # table[k].platform =>
                  \/ /\ IsRequest(request', "PUT") /\ response'.status = 200
                     /\ request'.post_id = k
                     /\ "platform" \in DOMAIN request'.data
                  \/ /\ IsRequest(request', "POST") /\ response'.status = 201
                     /\ response'.json.id = k
      ]_vars

\* C9 witness: a successful PUT supplied a mixed-case platform outside the
\* enumerated set, and the record holds its lowercase form.
C9_Witness ==
    /\ IsRequest(request, "PUT") /\ response.status = 200
    /\ HasUpper(request.data.platform.val)
    /\ table[request.post_id].platform = lower(request.data.platform.val)
    /\ table[request.post_id].platform \notin DOMAIN PLATFORMS

====
